---- MODULE Spec2Model ----
(***************************************************************************)
(* A model of src/src/requests/request.js: the Headers map, the Auth       *)
(* strategies, RequestConfig / KinveyRequestConfig and Request /           *)
(* KinveyRequest.                                                          *)
(*                                                                         *)
(* JavaScript values are modelled as follows.  A string is a TLA+ string;  *)
(* `undefined` is the marker jsUndefined.  A value that may be of several  *)
(* JavaScript types is a record [t, s, b, n] (see StrV, BoolV, NumV).  An   *)
(* object whose key order matters (Headers.headers, properties) is a       *)
(* sequence of [key, value] entries in insertion order, which is the order *)
(* Object.keys yields for non-numeric keys.  A call that throws is an      *)
(* outcome record with threw = TRUE and the error thrown.                  *)
(***************************************************************************)
EXTENDS Naturals, Sequences, FiniteSets, TLC

VARIABLES
  headers,       \* the `headers` field of the Headers object under study
  hcall,         \* the last call made on the Headers object and its outcome
  reqKind,       \* "Request" or "KinveyRequest"
  executing,     \* Request.executing
  optAuthType,   \* authType the caller configured on the config options
  optClient,     \* client the caller configured on the config options
  ownAuthType,   \* the request object's own `authType` property
  ownClient,     \* the request object's own `client` property
  rcall,         \* the last call made on the request and its outcome
  cfgKind,       \* "RequestConfig" or "KinveyRequestConfig"
  configAppVersion,  \* KinveyRequestConfig.configAppVersion
  configProperties,  \* KinveyRequestConfig.configProperties
  envMaxHeaderBytes, \* process.env.KINVEY_MAX_HEADER_BYTES
  ccall,         \* the last call made on the config and its outcome
  configUrl,     \* RequestConfig.configUrl
  configNoCache, \* RequestConfig.configNoCache
  query,         \* the config's `query` property
  appKey,        \* KinveyRequestConfig.appKey
  collection,    \* KinveyRequestConfig.collection
  entityId,      \* KinveyRequestConfig.entityId
  ucall          \* the last call made on the config's url, noCache or query

vars == <<headers, hcall, reqKind, executing, optAuthType, optClient,
          ownAuthType, ownClient, rcall, cfgKind, configAppVersion,
          configProperties, envMaxHeaderBytes, ccall, configUrl,
          configNoCache, query, appKey, collection, entityId, ucall>>

headersVars == <<headers, hcall>>
requestVars == <<reqKind, executing, optAuthType, optClient,
                 ownAuthType, ownClient, rcall>>
urlVars == <<configUrl, configNoCache, query, appKey, collection, entityId,
             ucall>>
configVars == <<cfgKind, configAppVersion, configProperties,
                envMaxHeaderBytes, ccall, urlVars>>

-----------------------------------------------------------------------------
(* JavaScript values *)

jsUndefined == "<undefined>"

StrV(s)  == [t |-> "string",    s |-> s,  b |-> FALSE, n |-> 0]
BoolV(b) == [t |-> "boolean",   s |-> "", b |-> b,     n |-> 0]
NumV(n)  == [t |-> "number",    s |-> "", b |-> FALSE, n |-> n]
UndefV   == [t |-> "undefined", s |-> "", b |-> FALSE, n |-> 0]
NullV    == [t |-> "null",      s |-> "", b |-> FALSE, n |-> 0]

\* lodash isString
isString(v) == v.t = "string"

\* ToBoolean of a tagged value: "", 0, false, null and undefined are falsy.
Truthy(v) ==
  CASE v.t = "string"  -> v.s # ""
    [] v.t = "boolean" -> v.b
    [] v.t = "number"  -> v.n # 0
    [] OTHER           -> FALSE

\* ToBoolean of a string-or-undefined.
TruthyStr(s) == s # jsUndefined /\ s # ""

\* JSON.stringify of a non-string primitive.
JSONstringify(v) ==
  CASE v.t = "boolean" -> (IF v.b THEN "true" ELSE "false")
    [] v.t = "number"  -> ToString(v.n)
    [] v.t = "null"    -> "null"
    [] v.t = "string"  -> "\"" \o v.s \o "\""
    [] OTHER           -> jsUndefined

\* A string-or-undefined inside a template literal: `${x}`.
TemplateStr(s) == IF s = jsUndefined THEN "undefined" ELSE s

\* String.prototype.toLowerCase on the header names of the model.
toLowerCase(name) ==
  CASE name \in {"accept", "Accept", "ACCEPT"} -> "accept"
    [] name \in {"authorization", "Authorization"} -> "authorization"
    [] name \in {"x-kinvey-client-app-version", "X-Kinvey-Client-App-Version"}
         -> "x-kinvey-client-app-version"
    [] name \in {"x-kinvey-custom-request-properties",
                 "X-Kinvey-Custom-Request-Properties"}
         -> "x-kinvey-custom-request-properties"
    [] OTHER -> name

\* An error object: its class, its message and the function that threw it.
Err(type, message, by) == [type |-> type, message |-> message, by |-> by]
NoError == Err("", "", "")

-----------------------------------------------------------------------------
(* Auth: lines 52-140 *)

kmdAttribute == "_kmd"

\* An auth record {scheme, username, password, credentials}; absent fields
\* are undefined.  isNull marks the null that Auth.none returns.
AuthInfo(scheme, username, password, credentials) ==
  [isNull |-> FALSE, scheme |-> scheme, username |-> username,
   password |-> password, credentials |-> credentials]
NullAuthInfo ==
  [isNull |-> TRUE, scheme |-> jsUndefined, username |-> jsUndefined,
   password |-> jsUndefined, credentials |-> jsUndefined]

Returned(info) == [threw |-> FALSE, error |-> NoError, info |-> info]
Thrown(error)  == [threw |-> TRUE, error |-> error, info |-> NullAuthInfo]

\* Reading a property of `undefined` throws a TypeError.
PropertyOfUndefined(prop, by) ==
  Err("TypeError", "Cannot read property '" \o prop \o "' of undefined", by)

MissingClientCredentials(by) == Err("Error", "Missing client credentials", by)

Auth_app(client) ==
  IF ~client.defined THEN Thrown(PropertyOfUndefined("appKey", "app"))
  ELSE IF ~TruthyStr(client.appKey) \/ ~TruthyStr(client.appSecret)
       THEN Thrown(MissingClientCredentials("app"))
       ELSE Returned(AuthInfo("Basic", client.appKey, client.appSecret,
                              jsUndefined))

Auth_master(client) ==
  IF ~client.defined THEN Thrown(PropertyOfUndefined("appKey", "master"))
  ELSE IF ~TruthyStr(client.appKey) \/ ~TruthyStr(client.masterSecret)
       THEN Thrown(MissingClientCredentials("master"))
       ELSE Returned(AuthInfo("Basic", client.appKey, client.masterSecret,
                              jsUndefined))

Auth_basic_appFirst(client) ==
  LET a == Auth_app(client) IN
  IF a.threw THEN Auth_master(client) ELSE a

Auth_basic(client) ==
  LET m == Auth_master(client) IN
  IF m.threw THEN Auth_app(client) ELSE m

Auth_none(client) == Returned(NullAuthInfo)

Auth_session(client) ==
  IF ~client.defined THEN Thrown(PropertyOfUndefined("activeUser", "session"))
  ELSE IF ~client.activeUser.exists
       THEN Thrown(Err("NoActiveUserError",
              "There is not an active user. Please login a user and retry the request.",
              "session"))
       ELSE IF ~client.activeUser.hasKmd
            THEN Thrown(PropertyOfUndefined("authtoken", "session"))
            ELSE Returned(AuthInfo("Kinvey", jsUndefined, jsUndefined,
                                   client.activeUser.authtoken))

Auth_all(client) ==
  LET s == Auth_session(client) IN
  IF s.threw THEN Auth_basic(client) ELSE s

-----------------------------------------------------------------------------
(* Headers: lines 142-228 *)

\* The `headers` field of a Headers object: undefined until first assigned.
UndefinedHeaders == [defined |-> FALSE, entries |-> << >>]
HeadersObject(entries) == [defined |-> TRUE, entries |-> entries]

\* `this.headers || {}`
HeadersOrEmpty(h) == IF h.defined THEN h.entries ELSE << >>

Entry(key, value) == [key |-> key, value |-> value]

\* Object.keys(o): the keys in insertion order.
ObjectKeys(entries) == [i \in 1..Len(entries) |-> entries[i].key]

\* Positions of an own property.
IndexesOf(entries, key) == {i \in 1..Len(entries) : entries[i].key = key}

\* o[key] = value: an existing key keeps its position, a new one is appended.
PutProperty(entries, key, value) ==
  IF IndexesOf(entries, key) # {}
  THEN [i \in 1..Len(entries) |->
          IF entries[i].key = key THEN Entry(key, value) ELSE entries[i]]
  ELSE Append(entries, Entry(key, value))

\* delete o[key]
DeleteProperty(entries, key) ==
  SelectSeq(entries, LAMBDA e : e.key # key)

\* The outcome of a call on a Headers object: the value returned (a string
\* or undefined), whether it threw, and the `headers` field afterwards.
HOutcome(h, ret, threw, error) ==
  [headers |-> h, ret |-> ret, threw |-> threw, error |-> error]

\* get(name), lines 147-166: the first key, in key order, whose lower-case
\* form equals that of the name.
Headers_get(h, name) ==
  IF TruthyStr(name)
  THEN LET entries == HeadersOrEmpty(h)
           hits == {i \in 1..Len(entries) :
                      toLowerCase(entries[i].key) = toLowerCase(name)}
       IN IF hits = {} THEN jsUndefined
          ELSE entries[CHOOSE i \in hits : \A j \in hits : i <= j].value
  ELSE jsUndefined

\* set(name, value), lines 168-186
Headers_set(h, name, value) ==
  IF ~TruthyStr(name) \/ ~Truthy(value)
  THEN HOutcome(h, jsUndefined, TRUE,
         Err("Error", "A name and value must be provided to set a header.", "set"))
  ELSE LET stored == IF ~isString(value) THEN JSONstringify(value) ELSE value.s
       IN HOutcome(HeadersObject(PutProperty(HeadersOrEmpty(h), name, stored)),
                   jsUndefined, FALSE, NoError)

\* has(name), lines 188-190: !!this.get(name)
Headers_has(h, name) == TruthyStr(Headers_get(h, name))

\* this.setHeader(...): Headers defines no setHeader, so the call throws.
Headers_setHeader(h, by) ==
  HOutcome(h, jsUndefined, TRUE,
           Err("TypeError", "this.setHeader is not a function", by))

\* add(header), lines 192-194
Headers_add(h, name, value) == Headers_setHeader(h, "add")

\* addAll(headers), lines 196-207: `obj` is the argument's entries, or
\* isPlain = FALSE for an argument that is no plain object.
Headers_addAll(h, isPlain, obj) ==
  IF ~isPlain
  THEN HOutcome(h, jsUndefined, TRUE,
         Err("Error", "Headers argument must be an object.", "addAll"))
  ELSE IF Len(ObjectKeys(obj)) = 0
       THEN HOutcome(h, jsUndefined, FALSE, NoError)
       ELSE Headers_setHeader(h, "addAll")

\* remove(name), lines 209-219
Headers_remove(h, name) ==
  IF TruthyStr(name)
  THEN HOutcome(HeadersObject(DeleteProperty(HeadersOrEmpty(h), name)),
                jsUndefined, FALSE, NoError)
  ELSE HOutcome(h, jsUndefined, FALSE, NoError)

\* clear(), lines 221-223
Headers_clear(h) == HOutcome(HeadersObject(<< >>), jsUndefined, FALSE, NoError)

\* new Headers(headers = {}), lines 143-145
Headers_constructor(isPlain, obj) == Headers_addAll(UndefinedHeaders, isPlain, obj)

-----------------------------------------------------------------------------
(* RequestConfig: lines 298-417 *)

AcceptDefault == "application/json; charset=utf-8"

\* constructor, lines 299-325, for options.headers a Headers object whose
\* `headers` field is h: the accept header is added unless one is there.
RequestConfig_constructor(h) ==
  IF ~Headers_has(h, "accept")
  THEN Headers_set(h, "accept", StrV(AcceptDefault))
  ELSE HOutcome(h, jsUndefined, FALSE, NoError)

-----------------------------------------------------------------------------
(* KinveyRequestConfig: lines 419-587 *)

\* A plain object of string properties, or undefined.
UndefinedProperties == [defined |-> FALSE, entries |-> << >>]
PropertiesObject(entries) == [defined |-> TRUE, entries |-> entries]

\* The members of a JSON object text: "k":"v" joined by commas.
RECURSIVE JSONMembers(_)
JSONMembers(entries) ==
  IF Len(entries) = 0 THEN ""
  ELSE LET e == entries[1]
           member == "\"" \o e.key \o "\":\"" \o e.value \o "\""
       IN IF Len(entries) = 1 THEN member
          ELSE member \o "," \o JSONMembers(Tail(entries))

\* JSON.stringify(this.properties), line 480: undefined for undefined.
JSONstringifyProperties(properties) ==
  IF ~properties.defined THEN jsUndefined
  ELSE "{" \o JSONMembers(properties.entries) \o "}"

\* In the strings of the model this character stands for a character that
\* UTF-8 encodes in two bytes (U+00E9); every other character is ASCII.
TwoByteCharacter == "~"

\* byteCount of ../utils/string: the number of bytes of the encoded text.
RECURSIVE byteCountFrom(_, _)
byteCountFrom(text, i) ==
  IF i > Len(text) THEN 0
  ELSE (IF SubSeq(text, i, i) = TwoByteCharacter THEN 2 ELSE 1)
         + byteCountFrom(text, i + 1)

byteCount(text) == byteCountFrom(text, 1)

\* The error of lines 484-487.
PropertiesTooLarge ==
  Err("Error", "The custom properties are too many bytes.", "get headers")

DefaultMaxHeaderBytes == 2000

\* Line 21: process.env.KINVEY_MAX_HEADER_BYTES || 2000
customPropertiesMaxBytesAllowed(env) ==
  IF env.set /\ env.value # 0 THEN env.value ELSE DefaultMaxHeaderBytes

\* The outcome of a call on a config: the configHeaders' `headers` field
\* afterwards, whether the call threw, and whether it returned the header map.
COutcome(h, threw, error, returnedMap) ==
  [headers |-> h, threw |-> threw, error |-> error, returnedMap |-> returnedMap]

\* RequestConfig: get headers, lines 350-352.
RequestConfig_headers_get(h) == COutcome(h, FALSE, NoError, TRUE)

\* KinveyRequestConfig: get headers, lines 471-491, entered with `depth`
\* stack frames left.  Line 490 reads this.headers, which enters the getter
\* again; the getter has no return statement, so a read that came back would
\* yield undefined.  byteCountThrows is what byteCount does with undefined.
RECURSIVE KinveyRequestConfig_headers_get(_, _, _, _, _, _)
KinveyRequestConfig_headers_get(h, appVersion, properties, cap, byteCountThrows, depth) ==
  IF depth = 0
  THEN COutcome(h, TRUE,
         Err("RangeError", "Maximum call stack size exceeded", "get headers"),
         FALSE)
  ELSE
    LET h1 == IF TruthyStr(appVersion)
              THEN Headers_set(h, "X-Kinvey-Client-App-Version",
                               StrV(appVersion)).headers
              ELSE Headers_remove(h, "X-Kinvey-Client-App-Version").headers
        customPropertiesHeader == JSONstringifyProperties(properties)
    IN IF customPropertiesHeader = jsUndefined /\ byteCountThrows
       THEN COutcome(h1, TRUE, PropertyOfUndefined("length", "byteCount"), FALSE)
       ELSE IF /\ customPropertiesHeader # jsUndefined
               /\ byteCount(customPropertiesHeader) >= cap
            THEN COutcome(h1, TRUE, PropertiesTooLarge, FALSE)
            ELSE LET inner == KinveyRequestConfig_headers_get(
                                h1, appVersion, properties, cap,
                                byteCountThrows, depth - 1)
                 IN IF inner.threw THEN inner
                    ELSE COutcome(inner.headers, TRUE,
                           PropertyOfUndefined("set", "get headers"), FALSE)

\* set appVersion, lines 566-586, for an array of numbers: args[0] is the
\* first element; version = args.slice(1).
KinveyRequestConfig_appVersion_set(args) ==
  LET At(seq, jsIndex) ==
        IF jsIndex + 1 <= Len(seq) THEN NumV(seq[jsIndex + 1]) ELSE UndefV
      version == IF Len(args) = 0 THEN << >> ELSE Tail(args)
      major == At(args, 0)
      minor == At(version, 1)
      patch == At(version, 2)
      v0 == ""
      v1 == IF Truthy(major) THEN ToString(major.n) ELSE v0
      v2 == IF Truthy(minor) THEN "." \o ToString(minor.n) ELSE v1
      v3 == IF Truthy(patch) THEN "." \o ToString(patch.n) ELSE v2
  IN v3

\* constructor, lines 420-469: super(options) runs lines 299-325 with `this`
\* the new KinveyRequestConfig, so the read of this.headers on line 318 is
\* the getter of lines 471-491, entered before appVersion and properties
\* are assigned.  h is the `headers` field of options.headers.
KinveyRequestConfig_constructor(h, cap, byteCountThrows, depth) ==
  LET read == KinveyRequestConfig_headers_get(h, jsUndefined,
                UndefinedProperties, cap, byteCountThrows, depth)
  IN IF read.threw THEN read
     ELSE COutcome(read.headers, TRUE,
                   PropertyOfUndefined("has", "RequestConfig.constructor"), FALSE)

\* set headers, lines 354-360 and 493-495: a Headers object is kept as it
\* is, anything else is wrapped in a new Headers.  `value` is the `headers`
\* field of a Headers object, or the entries of a plain object.
RequestConfig_headers_set(h, isHeaders, value) ==
  IF isHeaders THEN COutcome(value, FALSE, NoError, FALSE)
  ELSE LET made == Headers_constructor(TRUE, value) IN
       IF made.threw THEN COutcome(h, TRUE, made.error, FALSE)
       ELSE COutcome(made.headers, FALSE, NoError, FALSE)

-----------------------------------------------------------------------------
(* The url of RequestConfig and KinveyRequestConfig: lines 362-376, 497-516 *)

\* text.indexOf(ch) from position i on, counted from 1; 0 when absent.
RECURSIVE IndexOf(_, _, _)
IndexOf(text, ch, i) ==
  IF i > Len(text) THEN 0
  ELSE IF SubSeq(text, i, i) = ch THEN i
  ELSE IndexOf(text, ch, i + 1)

\* text.split(ch)
RECURSIVE Split(_, _)
Split(text, ch) ==
  LET at == IndexOf(text, ch, 1) IN
  IF at = 0 THEN <<text>>
  ELSE <<SubSeq(text, 1, at - 1)>>
         \o Split(SubSeq(text, at + 1, Len(text)), ch)

\* qs.stringify(object): key=value joined by "&".  The keys and values of
\* the model hold no character that percent-encoding changes.
RECURSIVE qs_stringify(_)
qs_stringify(entries) ==
  IF Len(entries) = 0 THEN ""
  ELSE LET pair == entries[1].key \o "=" \o entries[1].value IN
       IF Len(entries) = 1 THEN pair
       ELSE pair \o "&" \o qs_stringify(Tail(entries))

\* querystring.parse(text): the object of the pairs, in their order.
querystring_parse(text) ==
  IF text = "" THEN << >>
  ELSE LET pairs == Split(text, "&") IN
       [i \in 1..Len(pairs) |->
          LET eq == IndexOf(pairs[i], "=", 1) IN
          IF eq = 0 THEN Entry(pairs[i], "")
          ELSE Entry(SubSeq(pairs[i], 1, eq - 1),
                     SubSeq(pairs[i], eq + 1, Len(pairs[i])))]

\* url.parse(urlString): what precedes the first "?", the parameters after
\* it, and the pathname (null for a URL without one).
url_parse(urlString) ==
  LET mark == IndexOf(urlString, "?", 1)
      front == IF mark = 0 THEN urlString
               ELSE SubSeq(urlString, 1, mark - 1)
      scheme == IndexOf(front, ":", 1)
      slash == IF scheme = 0 THEN IndexOf(front, "/", 1)
               ELSE IndexOf(front, "/", scheme + 3)
  IN [front |-> front,
      query |-> IF mark = 0 THEN << >>
                ELSE querystring_parse(
                       SubSeq(urlString, mark + 1, Len(urlString))),
      pathname |-> IF slash = 0 THEN "null"
                   ELSE SubSeq(front, slash, Len(front))]

\* extend({}, target, source): the properties of source put on target.
RECURSIVE extend(_, _)
extend(target, source) ==
  IF Len(source) = 0 THEN target
  ELSE extend(PutProperty(target, source[1].key, source[1].value),
              Tail(source))

\* appendQuery(uri, q) of append-query: the parameters of q are merged into
\* those of uri and the URL is formatted again.
appendQuery(uri, q) ==
  LET parts == url_parse(uri)
      parsedQuery == extend(parts.query, querystring_parse(q))
  IN parts.front \o "?" \o qs_stringify(parsedQuery)

\* What Math.random().toString(36).substr(2) can yield: digits in base 36,
\* and the empty string when Math.random() is 0.
Tokens == {"", "k3", "x9"}

\* RequestConfig: get url, lines 362-372.
RequestConfig_url_get(url, noCache, token) ==
  IF noCache THEN appendQuery(url, qs_stringify(<<Entry("_", token)>>))
  ELSE url

\* A value of the `query` property: undefined or null, or a query object
\* with what its toQueryString() returns.
UndefinedQuery == [truthy |-> FALSE, queryString |-> << >>]
QueryObject(queryString) == [truthy |-> TRUE, queryString |-> queryString]

\* isEmpty(object), line 501
isEmpty(entries) == Len(entries) = 0

\* The getter with the query string appended before the cache-busting
\* parameter.
KinveyRequestConfig_url_get_queryFirst(url, noCache, token, q) ==
  LET queryString == IF q.truthy THEN q.queryString ELSE << >>
      withQuery == IF isEmpty(queryString) THEN url
                   ELSE appendQuery(url, qs_stringify(queryString))
  IN RequestConfig_url_get(withQuery, noCache, token)

\* KinveyRequestConfig: get url, lines 497-506.
KinveyRequestConfig_url_get(url, noCache, token, q) ==
  LET urlString == RequestConfig_url_get(url, noCache, token)
      queryString == IF q.truthy THEN q.queryString ELSE << >>
  IN IF isEmpty(queryString) THEN urlString
     ELSE appendQuery(urlString, qs_stringify(queryString))

\* The match of the pattern of line 511 on a pathname: the segments between
\* slashes are namespace, appKey, collection and entityId in that order, the
\* namespace only after a leading slash; no match beyond these.
UrlPattern_match(pathname) ==
  LET leading == Len(pathname) > 0 /\ SubSeq(pathname, 1, 1) = "/"
      segments == SelectSeq(Split(pathname, "/"), LAMBDA s : s # "")
      named == IF leading THEN segments ELSE <<jsUndefined>> \o segments
      At(i) == IF i <= Len(named) THEN named[i] ELSE jsUndefined
  IN IF Len(named) > 4
     THEN [appKey |-> jsUndefined, collection |-> jsUndefined,
           entityId |-> jsUndefined]
     ELSE [appKey |-> At(2), collection |-> At(3), entityId |-> At(4)]

\* The fields a url setter assigns: configUrl, and for a KinveyRequestConfig
\* appKey, collection and entityId (lines 374-376 and 508-516).  The
\* pathnames of the model hold no character that escape or unescape changes.
RequestConfig_url_set(urlString) ==
  [configUrl |-> urlString, appKey |-> jsUndefined,
   collection |-> jsUndefined, entityId |-> jsUndefined]

KinveyRequestConfig_url_set(urlString) ==
  LET matched == UrlPattern_match(url_parse(urlString).pathname) IN
  [configUrl |-> urlString, appKey |-> matched.appKey,
   collection |-> matched.collection, entityId |-> matched.entityId]

\* set noCache, lines 414-416
RequestConfig_noCache_set(noCache) == Truthy(noCache)

-----------------------------------------------------------------------------
(* Request and KinveyRequest: lines 592-765 *)

AuthType ==
  {"All", "App", "Basic", "Default", "Master", "None", "Session"}

\* The default branch of the switch in authorizationHeader, lines 718-727,
\* surfacing the second error instead of the first.
Auth_default_lastError(client) ==
  LET s == Auth_session(client)
      m == Auth_master(client)
  IN IF ~s.threw THEN s ELSE m

\* The default branch without its fallback to master.
Auth_default_sessionOnly(client) == Auth_session(client)

\* The default branch of the switch in authorizationHeader, lines 718-727.
Auth_default(client) ==
  LET s == Auth_session(client)
      m == Auth_master(client)
  IN IF ~s.threw THEN s
     ELSE IF ~m.threw THEN m ELSE Thrown(s.error)

\* The switch of authorizationHeader, lines 699-728.
AuthInfoFor(authType, client) ==
  CASE authType = "All"     -> Auth_all(client)
    [] authType = "App"     -> Auth_app(client)
    [] authType = "Basic"   -> Auth_basic(client)
    [] authType = "Master"  -> Auth_master(client)
    [] authType = "None"    -> Auth_none(client)
    [] authType = "Session" -> Auth_session(client)
    [] OTHER                -> Auth_default(client)

\* new Buffer(text).toString('base64'), on the texts the model's clients give.
Base64(text) ==
  CASE text = "kid1:appsec"    -> "a2lkMTphcHBzZWM="
    [] text = "kid1:mastersec" -> "a2lkMTptYXN0ZXJzZWM="

NullHeader == [isNull |-> TRUE, name |-> jsUndefined, value |-> jsUndefined]

\* Lines 730-743: the header built from an auth record, or null.
HeaderOf(info) ==
  IF info.isNull THEN NullHeader
  ELSE LET credentials ==
             IF TruthyStr(info.username)
             THEN Base64(TemplateStr(info.username) \o ":" \o
                         TemplateStr(info.password))
             ELSE info.credentials
       IN [isNull |-> FALSE, name |-> "Authorization",
           value |-> TemplateStr(info.scheme) \o " " \o TemplateStr(credentials)]

\* get authorizationHeader, lines 696-744, of a request whose own
\* properties are authType and client.
KinveyRequest_authorizationHeader(authType, client) ==
  LET a == AuthInfoFor(authType, client) IN
  [threw |-> a.threw, error |-> a.error, auth |-> a,
   header |-> IF a.threw THEN NullHeader ELSE HeaderOf(a.info)]

\* The outcome of a call on a request.
ROutcome(exec, h, threw, error, auth, header) ==
  [executing |-> exec, headers |-> h, threw |-> threw, error |-> error,
   auth |-> auth, header |-> header]

NoAuth == Returned(NullAuthInfo)

ReentrancyError ==
  Err("Error", "Unable to execute the request. The request is already executing.",
      "Request.execute")

\* Request.execute without the guard of lines 655-657.
Request_execute_unguarded(exec, h) ==
  ROutcome(TRUE, h, FALSE, NoError, NoAuth, NullHeader)

\* Request.execute, lines 654-661.
Request_execute(exec, h) ==
  IF exec
  THEN ROutcome(exec, h, TRUE, ReentrancyError, NoAuth, NullHeader)
  ELSE ROutcome(TRUE, h, FALSE, NoError, NoAuth, NullHeader)

\* this.addHeader(header), line 750: neither KinveyRequest nor Request
\* defines addHeader, so the call throws.
KinveyRequest_addHeader(exec, h, ah) ==
  ROutcome(exec, h, TRUE,
           Err("TypeError", "this.addHeader is not a function", "KinveyRequest.execute"),
           ah.auth, ah.header)

\* KinveyRequest.execute with the executing flag set before the
\* authorization header is resolved.
KinveyRequest_execute_flagFirst(exec, h, authType, client) ==
  LET ah == KinveyRequest_authorizationHeader(authType, client) IN
  IF exec
  THEN ROutcome(exec, h, TRUE, ReentrancyError, ah.auth, ah.header)
  ELSE IF ah.threw
       THEN ROutcome(TRUE, h, TRUE, ah.error, ah.auth, ah.header)
       ELSE IF ~ah.header.isNull
            THEN KinveyRequest_addHeader(TRUE, h, ah)
            ELSE ROutcome(TRUE, h, FALSE, NoError, ah.auth, ah.header)

\* KinveyRequest.execute, lines 746-754.
KinveyRequest_execute(exec, h, authType, client) ==
  LET ah == KinveyRequest_authorizationHeader(authType, client) IN
  IF ah.threw
  THEN ROutcome(exec, h, TRUE, ah.error, ah.auth, ah.header)
  ELSE IF ~ah.header.isNull
       THEN KinveyRequest_addHeader(exec, h, ah)
       ELSE LET base == Request_execute(exec, h) IN
            ROutcome(base.executing, base.headers, base.threw, base.error,
                     ah.auth, ah.header)

\* KinveyRequest.cancel, lines 756-758: Request defines no cancel.
KinveyRequest_cancel(exec, h) ==
  ROutcome(exec, h, TRUE,
           Err("TypeError", "super.cancel is not a function", "KinveyRequest.cancel"),
           NoAuth, NullHeader)

-----------------------------------------------------------------------------
(* The Headers object driven by its callers *)

\* Header names and values the callers pass.
HeaderNames == {"", "accept", "Accept", "Authorization"}
HeaderValues == {StrV("a"), StrV(""), BoolV(TRUE)}

\* Arguments of addAll: plain objects, and one argument that is none.
PlainObjects == {<< >>, <<Entry("accept", "a")>>}

HCall(op, name, value, pre, out, found, prev) ==
  [op |-> op, name |-> name, value |-> value, pre |-> pre,
   ret |-> out.ret, found |-> found, threw |-> out.threw, error |-> out.error,
   prevOp |-> prev.op, prevName |-> prev.name, prevThrew |-> prev.threw]

HeadersInitCall ==
  LET out == Headers_constructor(TRUE, << >>) IN
  [op |-> "constructor", name |-> "", value |-> UndefV, pre |-> UndefinedHeaders,
   ret |-> out.ret, found |-> FALSE, threw |-> out.threw, error |-> out.error,
   prevOp |-> "", prevName |-> "", prevThrew |-> FALSE]

HeadersInit ==
  /\ headers = Headers_constructor(TRUE, << >>).headers
  /\ hcall = HeadersInitCall

HeadersStep(op, name, value, out, found) ==
  /\ headers' = out.headers
  /\ hcall' = HCall(op, name, value, headers, out, found, hcall)
  /\ UNCHANGED <<requestVars, configVars>>

HSet ==
  \E name \in HeaderNames, value \in HeaderValues :
    HeadersStep("set", name, value, Headers_set(headers, name, value), FALSE)

HGet ==
  \E name \in HeaderNames :
    HeadersStep("get", name, UndefV,
                HOutcome(headers, Headers_get(headers, name), FALSE, NoError), FALSE)

HHas ==
  \E name \in HeaderNames :
    HeadersStep("has", name, UndefV,
                HOutcome(headers, jsUndefined, FALSE, NoError),
                Headers_has(headers, name))

HAdd ==
  \E name \in HeaderNames :
    HeadersStep("add", name, StrV("a"), Headers_add(headers, name, StrV("a")), FALSE)

HAddAll ==
  \/ \E obj \in PlainObjects :
       HeadersStep("addAll", "", UndefV, Headers_addAll(headers, TRUE, obj), FALSE)
  \/ HeadersStep("addAll", "", UndefV, Headers_addAll(headers, FALSE, << >>), FALSE)

HRemove ==
  \E name \in HeaderNames :
    HeadersStep("remove", name, UndefV, Headers_remove(headers, name), FALSE)

HClear ==
  HeadersStep("clear", "", UndefV, Headers_clear(headers), FALSE)

-----------------------------------------------------------------------------
(* The request driven by its callers *)

NoUser == [exists |-> FALSE, hasKmd |-> FALSE, authtoken |-> jsUndefined]

\* client.activeUser: none, a user without the _kmd block, a user whose
\* _kmd block has no authtoken, a user with a token.
ActiveUsers ==
  {NoUser,
   [exists |-> TRUE, hasKmd |-> FALSE, authtoken |-> jsUndefined],
   [exists |-> TRUE, hasKmd |-> TRUE, authtoken |-> jsUndefined],
   [exists |-> TRUE, hasKmd |-> TRUE, authtoken |-> "tok1"]}

Clients ==
  [defined : {TRUE}, appKey : {jsUndefined, "kid1"},
   appSecret : {jsUndefined, "appsec"},
   masterSecret : {jsUndefined, "", "mastersec"}, activeUser : ActiveUsers]

UndefinedClient ==
  [defined |-> FALSE, appKey |-> jsUndefined, appSecret |-> jsUndefined,
   masterSecret |-> jsUndefined, activeUser |-> NoUser]

AuthTypeInputs == AuthType \cup {jsUndefined}

RCall(op, out) ==
  [op |-> op, authType |-> ownAuthType, client |-> ownClient,
   preExecuting |-> executing, preHeaders |-> headers,
   threw |-> out.threw, error |-> out.error, auth |-> out.auth,
   header |-> out.header]

NoRequestCall ==
  [op |-> "none", authType |-> jsUndefined, client |-> UndefinedClient,
   preExecuting |-> FALSE, preHeaders |-> UndefinedHeaders, threw |-> FALSE,
   error |-> NoError, auth |-> NoAuth, header |-> NullHeader]

\* new Request(config) / new KinveyRequest(config) with the default config,
\* lines 593-596 and 680-683: the request is idle, and its config is a
\* RequestConfig, which keeps neither authType nor client.
RequestInit ==
  /\ reqKind \in {"Request", "KinveyRequest"}
  /\ executing = FALSE
  /\ optAuthType \in AuthTypeInputs
  /\ optClient \in Clients
  /\ ownAuthType = jsUndefined
  /\ ownClient = UndefinedClient
  /\ headers = RequestConfig_constructor(UndefinedHeaders).headers
  /\ rcall = [op |-> "constructor", authType |-> jsUndefined,
              client |-> UndefinedClient, preExecuting |-> FALSE,
              preHeaders |-> UndefinedHeaders, threw |-> FALSE,
              error |-> NoError, auth |-> NoAuth, header |-> NullHeader]

RequestStep(op, out) ==
  /\ executing' = out.executing
  /\ headers' = out.headers
  /\ rcall' = RCall(op, out)
  /\ UNCHANGED <<reqKind, optAuthType, optClient, ownAuthType, ownClient,
                 hcall, configVars>>

\* request.execute()
Execute ==
  RequestStep("execute",
    IF reqKind = "Request"
    THEN Request_execute(executing, headers)
    ELSE KinveyRequest_execute(executing, headers, ownAuthType, ownClient))

\* request.authorizationHeader
ReadAuthorizationHeader ==
  /\ reqKind = "KinveyRequest"
  /\ LET ah == KinveyRequest_authorizationHeader(ownAuthType, ownClient) IN
     RequestStep("authorizationHeader",
       ROutcome(executing, headers, ah.threw, ah.error, ah.auth, ah.header))

\* request.cancel()
Cancel ==
  /\ reqKind = "KinveyRequest"
  /\ RequestStep("cancel", KinveyRequest_cancel(executing, headers))

\* request.headers.set(name, value), lines 618-620 and 168-186
SetHeader ==
  \E name \in {"Authorization", "authorization"} :
    LET out == Headers_set(headers, name, StrV("Kinvey tok0")) IN
    RequestStep("headers.set",
      ROutcome(executing, out.headers, out.threw, out.error, NoAuth, NullHeader))

\* request.authType = ...: the caller gives the request object the authType
\* property that authorizationHeader reads (line 699).
AssignAuthType ==
  /\ reqKind = "KinveyRequest"
  /\ ownAuthType' = optAuthType
  /\ UNCHANGED <<headers, hcall, reqKind, executing, optAuthType, optClient,
                 ownClient, rcall, configVars>>

\* request.client = ...: the caller gives the request object the client
\* property that authorizationHeader reads (lines 701-723).
AssignClient ==
  /\ reqKind = "KinveyRequest"
  /\ ownClient' = optClient
  /\ UNCHANGED <<headers, hcall, reqKind, executing, optAuthType, optClient,
                 ownAuthType, rcall, configVars>>

-----------------------------------------------------------------------------
(* The url of the config driven by its callers *)

\* URLs the callers store: none, one without and one with parameters.
RawUrls == {"", "http://h/ns/kid1/books", "http://h/ns/kid1?a=0"}

\* Values the callers assign to noCache.
NoCacheInputs == {BoolV(TRUE), BoolV(FALSE), StrV(""), NumV(1)}

\* Values the callers assign to query: null, and queries whose
\* toQueryString() has no, one and two parameters.
QueryInputs ==
  {UndefinedQuery,
   QueryObject(<< >>),
   QueryObject(<<Entry("limit", "1")>>),
   QueryObject(<<Entry("limit", "1"), Entry("skip", "2")>>)}

UCall(op, value, token, preUrl) ==
  [op |-> op, value |-> value, token |-> token, preUrl |-> preUrl,
   prevOp |-> ucall.op, prevValue |-> ucall.value]

\* The url setter of the config's class.
UrlSet(urlString) ==
  IF cfgKind = "RequestConfig" THEN RequestConfig_url_set(urlString)
  ELSE KinveyRequestConfig_url_set(urlString)

\* The fields after the constructor's assignments of options.url and
\* options.noCache, lines 312 and 316; query is not assigned before line 318.
UrlConstructed(urlString, noCache) ==
  LET set == UrlSet(urlString) IN
  /\ configUrl = set.configUrl
  /\ appKey = set.appKey
  /\ collection = set.collection
  /\ entityId = set.entityId
  /\ configNoCache = RequestConfig_noCache_set(noCache)
  /\ query = UndefinedQuery
  /\ ucall = [op |-> "constructor", value |-> jsUndefined, token |-> "",
              preUrl |-> jsUndefined, prevOp |-> "", prevValue |-> jsUndefined]

UrlIdle == UrlConstructed("", BoolV(FALSE))

UrlStep == UNCHANGED <<headersVars, requestVars, cfgKind, configAppVersion,
                       configProperties, envMaxHeaderBytes, ccall>>

\* config.url
ReadUrl ==
  /\ \E token \in Tokens :
       LET value == IF cfgKind = "RequestConfig"
                    THEN RequestConfig_url_get(configUrl, configNoCache, token)
                    ELSE KinveyRequestConfig_url_get(configUrl, configNoCache,
                                                     token, query)
       IN ucall' = UCall("url", value, token, configUrl)
  /\ UNCHANGED <<configUrl, configNoCache, query, appKey, collection,
                 entityId>>
  /\ UrlStep

\* config.url = urlString
SetUrl ==
  /\ \E urlString \in RawUrls :
       LET set == UrlSet(urlString) IN
       /\ configUrl' = set.configUrl
       /\ appKey' = set.appKey
       /\ collection' = set.collection
       /\ entityId' = set.entityId
  /\ ucall' = UCall("url=", jsUndefined, "", configUrl)
  /\ UNCHANGED <<configNoCache, query>>
  /\ UrlStep

\* config.noCache = noCache
SetNoCache ==
  /\ \E noCache \in NoCacheInputs :
       configNoCache' = RequestConfig_noCache_set(noCache)
  /\ ucall' = UCall("noCache=", jsUndefined, "", configUrl)
  /\ UNCHANGED <<configUrl, query, appKey, collection, entityId>>
  /\ UrlStep

\* config.query = q, on a KinveyRequestConfig (line 437)
SetQuery ==
  /\ cfgKind = "KinveyRequestConfig"
  /\ \E q \in QueryInputs : query' = q
  /\ ucall' = UCall("query=", jsUndefined, "", configUrl)
  /\ UNCHANGED <<configUrl, configNoCache, appKey, collection, entityId>>
  /\ UrlStep

-----------------------------------------------------------------------------
(* The config driven by its callers *)

\* Segments of an appVersion array, and the longest array the callers pass.
MaxSegments == 3
Segments == 0..2
RECURSIVE ArraysUpTo(_)
ArraysUpTo(n) ==
  IF n = 0 THEN {<< >>}
  ELSE LET shorter == ArraysUpTo(n - 1) IN
       shorter \cup {Append(a, x) : a \in {b \in shorter : Len(b) = n - 1},
                                      x \in Segments}

\* A small KINVEY_MAX_HEADER_BYTES, and the environments of the model.
SmallMaxHeaderBytes == 12
Environments ==
  {[set |-> FALSE, value |-> 0], [set |-> TRUE, value |-> SmallMaxHeaderBytes]}

\* Stack frames available to a read of headers.
MaxCallStack == 3

PropertiesInputs ==
  {UndefinedProperties,
   PropertiesObject(<< >>),
   PropertiesObject(<<Entry("a", "b")>>),
   PropertiesObject(<<Entry("a", "~~")>>),
   PropertiesObject(<<Entry("a", "b"), Entry("c", "dd")>>)}

\* The config variables of a specification that drives no config.
NoConfigCall ==
  [op |-> "none", args |-> << >>, threw |-> FALSE, error |-> NoError,
   returnedMap |-> FALSE]

ConfigIdle ==
  /\ cfgKind = "RequestConfig"
  /\ configAppVersion = jsUndefined
  /\ configProperties = UndefinedProperties
  /\ envMaxHeaderBytes = [set |-> FALSE, value |-> 0]
  /\ ccall = NoConfigCall
  /\ UrlIdle

CCall(op, out) ==
  [op |-> op, args |-> << >>, threw |-> out.threw, error |-> out.error,
   returnedMap |-> out.returnedMap]

\* new RequestConfig() and new KinveyRequestConfig(), with the default
\* options.  The constructor of a KinveyRequestConfig throws at its read of
\* this.headers; the fields are then those lines 310-316 have assigned, and
\* the accessors of the class are exercised on that object.
ConfigInit ==
  /\ cfgKind \in {"RequestConfig", "KinveyRequestConfig"}
  /\ envMaxHeaderBytes \in Environments
  /\ configAppVersion = jsUndefined
  /\ configProperties = UndefinedProperties
  /\ \E byteCountThrows \in BOOLEAN :
       LET made == Headers_constructor(TRUE, << >>).headers
           out == IF cfgKind = "RequestConfig"
                  THEN LET c == RequestConfig_constructor(made) IN
                       COutcome(c.headers, c.threw, c.error, FALSE)
                  ELSE KinveyRequestConfig_constructor(made,
                         customPropertiesMaxBytesAllowed(envMaxHeaderBytes),
                         byteCountThrows, MaxCallStack)
       IN /\ headers = out.headers
          /\ ccall = CCall("constructor", out)

ConfigSpecInit ==
  /\ ConfigInit
  /\ UrlIdle
  /\ hcall = HeadersInitCall
  /\ reqKind = "Request"
  /\ executing = FALSE
  /\ optAuthType = jsUndefined
  /\ optClient = UndefinedClient
  /\ ownAuthType = jsUndefined
  /\ ownClient = UndefinedClient
  /\ rcall = NoRequestCall

\* config.headers read by a caller.
ReadOfHeaders(byteCountThrows) ==
  IF cfgKind = "RequestConfig"
  THEN RequestConfig_headers_get(headers)
  ELSE KinveyRequestConfig_headers_get(headers, configAppVersion,
         configProperties, customPropertiesMaxBytesAllowed(envMaxHeaderBytes),
         byteCountThrows, MaxCallStack)

\* config.headers
ReadHeaders ==
  \E byteCountThrows \in BOOLEAN :
    LET out == ReadOfHeaders(byteCountThrows) IN
    /\ headers' = out.headers
    /\ ccall' = CCall("headers", out)
    /\ UNCHANGED <<hcall, requestVars, urlVars, cfgKind, configAppVersion,
                   configProperties, envMaxHeaderBytes>>

\* config.appVersion = args
SetAppVersion ==
  /\ cfgKind = "KinveyRequestConfig"
  /\ \E args \in ArraysUpTo(MaxSegments) :
       /\ configAppVersion' = KinveyRequestConfig_appVersion_set(args)
       /\ ccall' = [op |-> "appVersion=", args |-> args, threw |-> FALSE,
                    error |-> NoError, returnedMap |-> FALSE]
  /\ UNCHANGED <<headers, hcall, requestVars, urlVars, cfgKind,
                 configProperties, envMaxHeaderBytes>>

\* config.properties = properties, lines 546-548
SetProperties ==
  /\ cfgKind = "KinveyRequestConfig"
  /\ \E properties \in PropertiesInputs : configProperties' = properties
  /\ ccall' = [op |-> "properties=", args |-> << >>, threw |-> FALSE,
               error |-> NoError, returnedMap |-> FALSE]
  /\ UNCHANGED <<headers, hcall, requestVars, urlVars, cfgKind,
                 configAppVersion, envMaxHeaderBytes>>

\* config.headers.set(name, value): the read, then set on the map it yields.
ConfigHeadersSet ==
  \E byteCountThrows \in BOOLEAN, name \in {"accept", "Accept"},
     value \in {StrV("text/plain")} :
    LET read == ReadOfHeaders(byteCountThrows)
        out == IF read.threw THEN read
               ELSE LET r == Headers_set(read.headers, name, value) IN
                    COutcome(r.headers, r.threw, r.error, FALSE)
    IN /\ headers' = out.headers
       /\ ccall' = CCall("headers.set", out)
       /\ UNCHANGED <<hcall, requestVars, urlVars, cfgKind, configAppVersion,
                      configProperties, envMaxHeaderBytes>>

\* config.headers = value: a new Headers(), or a plain object.
ConfigSetHeaders ==
  \E isHeaders \in BOOLEAN, obj \in PlainObjects :
    /\ isHeaders => obj = << >>
    /\ LET out == RequestConfig_headers_set(headers, isHeaders,
                    IF isHeaders THEN Headers_constructor(TRUE, << >>).headers
                    ELSE obj)
       IN /\ headers' = out.headers
          /\ ccall' = CCall("headers=", out)
    /\ UNCHANGED <<hcall, requestVars, urlVars, cfgKind, configAppVersion,
                   configProperties, envMaxHeaderBytes>>

-----------------------------------------------------------------------------
(* Specifications *)

Init ==
  /\ RequestInit
  /\ hcall = HeadersInitCall
  /\ ConfigIdle

Next ==
  \/ Execute
  \/ ReadAuthorizationHeader
  \/ Cancel
  \/ SetHeader
  \/ AssignAuthType
  \/ AssignClient

\* A request and its callers.
Spec == Init /\ [][Next]_vars

ConfigNext ==
  \/ ReadHeaders
  \/ SetAppVersion
  \/ SetProperties
  \/ ConfigHeadersSet
  \/ ConfigSetHeaders

\* A config and its callers.
ConfigSpec == ConfigSpecInit /\ [][ConfigNext]_vars

UrlSpecInit ==
  /\ ConfigInit
  /\ \E urlString \in RawUrls, noCache \in BOOLEAN :
       UrlConstructed(urlString, BoolV(noCache))
  /\ hcall = HeadersInitCall
  /\ reqKind = "Request"
  /\ executing = FALSE
  /\ optAuthType = jsUndefined
  /\ optClient = UndefinedClient
  /\ ownAuthType = jsUndefined
  /\ ownClient = UndefinedClient
  /\ rcall = NoRequestCall

UrlNext ==
  \/ ReadUrl
  \/ SetUrl
  \/ SetNoCache
  \/ SetQuery

\* The url of a config and its callers.
UrlSpec == UrlSpecInit /\ [][UrlNext]_vars

HeadersSpecInit ==
  /\ HeadersInit
  /\ ConfigIdle
  /\ reqKind = "Request"
  /\ executing = FALSE
  /\ optAuthType = jsUndefined
  /\ optClient = UndefinedClient
  /\ ownAuthType = jsUndefined
  /\ ownClient = UndefinedClient
  /\ rcall = NoRequestCall

HeadersNext ==
  \/ HSet
  \/ HGet
  \/ HHas
  \/ HAdd
  \/ HAddAll
  \/ HRemove
  \/ HClear

\* A Headers object and its callers.
HeadersSpec == HeadersSpecInit /\ [][HeadersNext]_vars

-----------------------------------------------------------------------------
(* Claims about Request.execute and KinveyRequest.execute *)

\* C1: a Request is created idle; execute() on an idle Request moves it to
\* executing; execute() on an executing Request fails with the reentrancy
\* error and leaves it executing; and no step of any request moves it from
\* executing back to idle.
C1_ExecuteLifecycle ==
  /\ [](reqKind = "Request" =>
         /\ (rcall.op = "constructor" => ~executing)
         /\ (rcall.op = "execute" /\ ~rcall.preExecuting =>
               executing /\ ~rcall.threw)
         /\ (rcall.op = "execute" /\ rcall.preExecuting =>
               executing /\ rcall.threw /\ rcall.error = ReentrancyError))
  /\ [][executing => executing']_vars

\* A second execute() on a Request has failed with the reentrancy error.
C1_Witness ==
  /\ reqKind = "Request"
  /\ rcall.op = "execute"
  /\ rcall.preExecuting
  /\ rcall.threw
  /\ executing

\* The authorization header the configured authType resolves to against the
\* config's client.
ConfiguredAuth == AuthInfoFor(optAuthType, optClient)

\* C2: execute() on an idle KinveyRequest whose configured authType resolves
\* against the config's client ends with the request executing and, when an
\* auth record was resolved, with the Authorization header
\* "{scheme} {credentials}" in the config's headers; when the resolver
\* returned null the Authorization header is as it was.
C2_ExecuteMergesAuthorization ==
  (/\ reqKind = "KinveyRequest"
   /\ rcall.op = "execute"
   /\ ~rcall.preExecuting
   /\ ~ConfiguredAuth.threw)
  => /\ executing
     /\ ~rcall.threw
     /\ IF ConfiguredAuth.info.isNull
        THEN Headers_get(headers, "Authorization")
               = Headers_get(rcall.preHeaders, "Authorization")
        ELSE /\ Headers_has(headers, "Authorization")
             /\ Headers_get(headers, "Authorization")
                  = HeaderOf(ConfiguredAuth.info).value

-----------------------------------------------------------------------------
(* Claims about the Auth strategies *)

IsDefaultAuthType(authType) == authType \notin (AuthType \ {"Default"})

\* C3: with the Default (or no) auth type, for every client: the result is
\* the session record if session succeeds; otherwise the master record if
\* master succeeds; and if both fail the error surfaced is the session
\* error, not the master error.
C3_DefaultCascade ==
  (rcall.op = "authorizationHeader" /\ IsDefaultAuthType(rcall.authType))
  => LET s == Auth_session(rcall.client)
         m == Auth_master(rcall.client)
     IN /\ (~s.threw => ~rcall.threw /\ rcall.auth = s)
        /\ (s.threw /\ ~m.threw => ~rcall.threw /\ rcall.auth = m)
        /\ (s.threw /\ m.threw =>
              /\ rcall.threw
              /\ rcall.error = s.error
              /\ rcall.error # m.error)

\* Both strategies failed on a client object without a user and without a
\* master secret, and the no-active-user error was surfaced.
C3_Witness ==
  /\ rcall.op = "authorizationHeader"
  /\ IsDefaultAuthType(rcall.authType)
  /\ rcall.client.defined
  /\ Auth_master(rcall.client).threw
  /\ rcall.threw
  /\ rcall.error.type = "NoActiveUserError"

\* The case of C4: the default strategy, an active user whose representation
\* makes session fail, and appKey and masterSecret both present.
C4_Case ==
  /\ rcall.op = "authorizationHeader"
  /\ IsDefaultAuthType(rcall.authType)
  /\ rcall.client.defined
  /\ rcall.client.activeUser.exists
  /\ Auth_session(rcall.client).threw
  /\ TruthyStr(rcall.client.appKey)
  /\ TruthyStr(rcall.client.masterSecret)

\* C4 as claimed: in that case the session error is surfaced to the caller.
C4_SessionErrorSurfaced ==
  C4_Case => rcall.threw /\ rcall.error = Auth_session(rcall.client).error

\* C4 as amended: in that case no error is surfaced; the result is the Basic
\* record of appKey and masterSecret and the header built from it.
C4_MasterRecordReturned ==
  C4_Case =>
    /\ ~rcall.threw
    /\ rcall.auth.info = AuthInfo("Basic", rcall.client.appKey,
                                  rcall.client.masterSecret, jsUndefined)
    /\ rcall.header.name = "Authorization"
    /\ rcall.header.value = "Basic " \o Base64("kid1:mastersec")

C4_Witness == C4_Case /\ ~rcall.threw

\* What the basic cascade is claimed to yield for a client object.
ExpectedBasic(c) ==
  IF TruthyStr(c.appKey) /\ TruthyStr(c.masterSecret)
  THEN Returned(AuthInfo("Basic", c.appKey, c.masterSecret, jsUndefined))
  ELSE IF TruthyStr(c.appKey) /\ TruthyStr(c.appSecret)
       THEN Returned(AuthInfo("Basic", c.appKey, c.appSecret, jsUndefined))
       ELSE Thrown(MissingClientCredentials("app"))

\* C5: for every client object, `all` yields the session record when session
\* succeeds, otherwise Basic appKey/masterSecret when both are present,
\* otherwise Basic appKey/appSecret when both are present, otherwise the
\* app strategy's credentials-missing error; `basic` is the same without
\* the session step.
C5_AllBasicPriority ==
  (rcall.op = "authorizationHeader" /\ rcall.client.defined)
  => LET c == rcall.client
         s == Auth_session(c)
     IN /\ (rcall.authType = "All" =>
              rcall.auth = IF ~s.threw THEN s ELSE ExpectedBasic(c))
        /\ (rcall.authType = "Basic" => rcall.auth = ExpectedBasic(c))
        /\ (rcall.authType \in {"All", "Basic"} =>
              rcall.threw = rcall.auth.threw /\ rcall.error = rcall.auth.error)

\* `all` fell through session and master to the app secret.
C5_Witness ==
  /\ rcall.op = "authorizationHeader"
  /\ rcall.authType = "All"
  /\ rcall.client.defined
  /\ Auth_session(rcall.client).threw
  /\ ~TruthyStr(rcall.client.masterSecret)
  /\ ~rcall.threw
  /\ rcall.auth.info.password = "appsec"

\* C6: session yields the Kinvey scheme with the token when the client has
\* an active user with a session token, and in every other case fails with
\* the no-active-user error.
C6_SessionRequiresToken ==
  (/\ rcall.op = "authorizationHeader"
   /\ rcall.authType = "Session"
   /\ rcall.client.defined)
  => LET u == rcall.client.activeUser IN
     IF u.exists /\ u.hasKmd /\ TruthyStr(u.authtoken)
     THEN /\ ~rcall.threw
          /\ rcall.auth.info = AuthInfo("Kinvey", jsUndefined, jsUndefined,
                                        u.authtoken)
     ELSE /\ rcall.threw
          /\ rcall.error.type = "NoActiveUserError"

-----------------------------------------------------------------------------
(* Claims about Headers *)

SameNameIgnoringCase(n1, n2) == toLowerCase(n1) = toLowerCase(n2)

\* The stored form of a value: itself when a string, its JSON text otherwise.
StoredForm(v) == IF isString(v) THEN v.s ELSE JSONstringify(v)

\* C7: after set(n1, v), for every name n2 that differs from n1 only in
\* case, get(n2) is the stored form of v and has(n2) is true.
C7_SetThenGetIgnoresCase ==
  (hcall.op = "set" /\ ~hcall.threw)
  => \A n2 \in HeaderNames :
       SameNameIgnoringCase(hcall.name, n2) =>
         /\ Headers_get(headers, n2) = StoredForm(hcall.value)
         /\ Headers_has(headers, n2)

\* C8: the map never holds two entries whose names differ only in case.
C8_OneEntryPerName ==
  LET entries == HeadersOrEmpty(headers) IN
  \A i, j \in 1..Len(entries) :
    i # j => ~SameNameIgnoringCase(entries[i].key, entries[j].key)

\* C9: after set(n1, v) followed by remove(n2), n1 and n2 differing only in
\* case, has and get find neither name; and remove of an absent name leaves
\* the entries as they were.
C9_RemoveIgnoresCase ==
  /\ (/\ hcall.op = "remove"
      /\ hcall.name # ""
      /\ hcall.prevOp = "set"
      /\ ~hcall.prevThrew
      /\ SameNameIgnoringCase(hcall.prevName, hcall.name))
     => \A n \in {hcall.prevName, hcall.name} :
          ~Headers_has(headers, n) /\ Headers_get(headers, n) = jsUndefined
  /\ (hcall.op = "remove" /\ ~Headers_has(hcall.pre, hcall.name))
     => HeadersOrEmpty(headers) = HeadersOrEmpty(hcall.pre)

-----------------------------------------------------------------------------
(* Claims about KinveyRequestConfig *)

AppVersionHeader == "X-Kinvey-Client-App-Version"
CustomPropertiesHeader == "X-Kinvey-Custom-Request-Properties"

\* The properties are an object whose JSON text is under the byte cap.
PropertiesUnderCap ==
  /\ configProperties.defined
  /\ byteCount(JSONstringifyProperties(configProperties))
       < customPropertiesMaxBytesAllowed(envMaxHeaderBytes)

\* C10: every read of a KinveyRequestConfig's headers (the constructor's
\* own read included) completes and yields the header map, in which the
\* app-version header is the current appVersion when one is set and absent
\* otherwise, and the custom-properties header is the JSON text of the
\* current properties.
C10_HeadersReadRecomputes ==
  (/\ cfgKind = "KinveyRequestConfig"
   /\ \/ ccall.op = "constructor"
      \/ ccall.op = "headers" /\ PropertiesUnderCap)
  => /\ ~ccall.threw
     /\ ccall.returnedMap
     /\ IF TruthyStr(configAppVersion)
        THEN Headers_get(headers, AppVersionHeader) = configAppVersion
        ELSE ~Headers_has(headers, AppVersionHeader)
     /\ Headers_get(headers, CustomPropertiesHeader)
          = JSONstringifyProperties(configProperties)

\* The segments joined by dots: major[.minor[.patch]].
RECURSIVE DotJoined(_)
DotJoined(segments) ==
  IF Len(segments) = 0 THEN ""
  ELSE IF Len(segments) = 1 THEN ToString(segments[1])
  ELSE DotJoined(SubSeq(segments, 1, Len(segments) - 1))
         \o "." \o ToString(segments[Len(segments)])

\* C11: after appVersion is set from one to three positional segments, the
\* app version is those segments, each once and in order, joined by dots:
\* (1, 2, 3) gives "1.2.3", (1, 2) gives "1.2" and (1) gives "1".
C11_AppVersionComposition ==
  (/\ ccall.op = "appVersion="
   /\ Len(ccall.args) >= 1
   /\ \A i \in 1..Len(ccall.args) : ccall.args[i] # 0)
  => configAppVersion = DotJoined(ccall.args)

\* The characters of a text, one per character whatever its encoding.
CharacterCount(text) == Len(text)

\* C12: with byte cap C, a read of a KinveyRequestConfig's headers throws the
\* too-large error when the byte count of the JSON text of the properties is
\* C or more, and otherwise completes, yields the header map and stores the
\* whole JSON text as the custom-properties header; bytes are compared, not
\* characters.
C12_ByteCap ==
  (/\ cfgKind = "KinveyRequestConfig"
   /\ ccall.op = "headers"
   /\ configProperties.defined)
  => LET text == JSONstringifyProperties(configProperties)
         cap == customPropertiesMaxBytesAllowed(envMaxHeaderBytes)
     IN IF byteCount(text) >= cap
        THEN ccall.threw /\ ccall.error = PropertiesTooLarge
        ELSE /\ ~ccall.threw
             /\ ccall.returnedMap
             /\ Headers_get(headers, CustomPropertiesHeader) = text

\* A read whose text has fewer characters than the cap and as many bytes as
\* the cap allows or more: the read throws the too-large error.
C12_BytesNotCharacters ==
  /\ cfgKind = "KinveyRequestConfig"
  /\ ccall.op = "headers"
  /\ configProperties.defined
  /\ LET text == JSONstringifyProperties(configProperties)
         cap == customPropertiesMaxBytesAllowed(envMaxHeaderBytes)
     IN /\ CharacterCount(text) < cap
        /\ byteCount(text) >= cap
  /\ ccall.threw
  /\ ccall.error = PropertiesTooLarge

-----------------------------------------------------------------------------
(* Claims about the url of a config *)

\* The parameters a read adds to the stored URL, in their order: the
\* cache-busting parameter with the token of that read when noCache is
\* true, then those of a non-empty query.
AddedParameters ==
  (IF configNoCache THEN <<Entry("_", ucall.token)>> ELSE << >>)
    \o (IF cfgKind = "KinveyRequestConfig" /\ query.truthy
        THEN query.queryString ELSE << >>)

-----------------------------------------------------------------------------
(* Claims about RequestConfig *)

\* The values the callers of the model give an accept header.
AcceptValuesOfCallers == {"text/plain", "a"}

\* C14: in every state of a RequestConfig, after its construction and after
\* any of its setters (the one that replaces the headers included), the
\* header map has an accept entry, and its value is the default one or one
\* a caller gave it.
C14_AcceptAlwaysPresent ==
  cfgKind = "RequestConfig"
  => /\ Headers_has(headers, "accept")
     /\ Headers_get(headers, "accept")
          \in {AcceptDefault} \cup AcceptValuesOfCallers

-----------------------------------------------------------------------------
(* Claims about a failed execute *)

\* The execute that just ended threw while resolving the authorization
\* header.
AuthResolutionFailed ==
  /\ reqKind = "KinveyRequest"
  /\ rcall.op = "execute"
  /\ rcall.threw
  /\ rcall.auth.threw

\* C15: an execute() that throws leaves the executing flag and the config's
\* headers as they were before the call; in particular a request that was
\* idle is idle after a failure to resolve the authorization header, and
\* after the reentrancy error the headers, any Authorization entry
\* included, are those of before the call.
C15_FailedExecuteChangesNothing ==
  /\ (rcall.op = "execute" /\ rcall.threw)
       => executing = rcall.preExecuting /\ headers = rcall.preHeaders
  /\ (AuthResolutionFailed /\ ~rcall.preExecuting) => ~executing
  /\ (rcall.op = "execute" /\ rcall.threw /\ rcall.error = ReentrancyError)
       => /\ rcall.preExecuting
          /\ HeadersOrEmpty(headers) = HeadersOrEmpty(rcall.preHeaders)
          /\ Headers_get(headers, "Authorization")
               = Headers_get(rcall.preHeaders, "Authorization")

\* A KinveyRequest with an Authorization header that is executing and whose
\* execute has just thrown the reentrancy error.
C15_Witness ==
  /\ reqKind = "KinveyRequest"
  /\ rcall.op = "execute"
  /\ rcall.error = ReentrancyError
  /\ Headers_has(rcall.preHeaders, "Authorization")
  /\ executing

\* An idle KinveyRequest whose execute has just failed to resolve the
\* authorization header.
C15_AuthFailureReached ==
  /\ AuthResolutionFailed
  /\ ~rcall.preExecuting
  /\ ~executing

====
